---- MODULE Spec2Model ----
(***************************************************************************)
(* Model of main.py: the Google Jobs scraper built on SerpAPI.             *)
(*                                                                         *)
(* One run is the command-line entry point followed by scrape_jobs: the    *)
(* loop over the date chips, one fetch with retry per chip, the            *)
(* deduplicating insertion of the returned jobs and the final write of     *)
(* the output document.                                                    *)
(*                                                                         *)
(* Python dicts are functions whose DOMAIN is the set of keys present, so  *)
(* that d.get(k, default) distinguishes a missing key from a present one.  *)
(* A multi-line string is the sequence of its lines ("" is <<>>).          *)
(***************************************************************************)
EXTENDS Integers, Sequences, FiniteSets, TLC

\* ------------------------------------------------------------------ bounds
MaxLimit == 15
MaxPageLen == 10
MaxRoundLimit == 60

\* ------------------------------------------------------- program constants
MAX_RETRIES == 3
RETRY_DELAY == 5
PageSize == 10

\* Python's None
None == "None"

\* dict.get(key, default)
Get(d, key, default) == IF key \in DOMAIN d THEN d[key] ELSE default

EmptyDict == [k \in {} |-> None]

\* ------------------------------------------------------- provider's world
\* The listings the provider can return, as raw SerpAPI job dicts.
Titles == <<"t0", "t1", "t2", "t3", "t4", "t5">>
Companies == <<"c0", "c1", "c2", "c3", "c4", "c5">>

RegularJob(i) ==
    [title |-> Titles[(i % 6) + 1],
     company_name |-> Companies[((i \div 6) % 6) + 1],
     description |-> <<"d">>]

RawJob(i) ==
    CASE i = 1 -> [company_name |-> "c0", description |-> <<"no title">>]
      [] i = 2 -> [title |-> "Title not found", company_name |-> "c0",
                   detected_extensions |-> [posted_at |-> "1 day ago", salary |-> "10"],
                   apply_options |-> <<[link |-> "u1", title |-> "p1"], [link |-> "u2"]>>]
      [] i = 3 -> [title |-> "", company_name |-> "c0",
                   job_highlights |-> <<[title |-> "Qualifications", items |-> <<"q1", "q2">>],
                                        [items |-> <<"r1">>]>>,
                   description |-> <<"ignored">>]
      [] i = 4 -> [title |-> "t0"]
      [] i = 5 -> [title |-> RegularJob(11).title,
                   company_name |-> RegularJob(11).company_name,
                   description |-> <<"d, reposted">>,
                   detected_extensions |-> [salary |-> "20"]]
      [] OTHER -> RegularJob(i)

RECURSIVE Slice(_, _)
Slice(start, n) == IF n <= 0 THEN <<>> ELSE <<RawJob(start)>> \o Slice(start + 1, n - 1)

\* The pages the provider can return: the five irregular listings (the
\* fifth is listing 11 again with other details) and two full pages (the
\* provider returns about ten listings per query).
PageShapes == {<<1, 5>>, <<11, MaxPageLen>>, <<21, MaxPageLen>>}
Pages == {Slice(sh[1], sh[2]) : sh \in PageShapes}

\* What GoogleSearch(params).get_dict() can return.
OkResponses ==
    {[jobs_results |-> p] : p \in Pages}
    \cup {[jobs_results |-> p, serpapi_pagination |-> [next_page_token |-> "tokA"]] :
            p \in Pages}
EmptyResponses ==
    {EmptyDict,
     [jobs_results |-> <<>>, serpapi_pagination |-> [next_page_token |-> "tokB"]]}
ErrorResponses ==
    {[error |-> "quota"],
     [error |-> "quota", jobs_results |-> Slice(11, MaxPageLen),
      serpapi_pagination |-> [next_page_token |-> "tokE"]]}
Responses == OkResponses \cup EmptyResponses \cup ErrorResponses

\* The values of --limit tried, a negative and a zero one included.
Limits == {-10, 0, 1, PageSize, MaxLimit}

\* ------------------------------------------------------------------- state
VARIABLES
    args,                  \* the parsed command line
    pc,                    \* position of the run
    target,                \* scrape_jobs: target
    date_chips,            \* scrape_jobs: date_chips
    chipIdx,               \* position of `for chip in date_chips`
    seen,                  \* scrape_jobs: seen
    scraped_jobs,          \* scrape_jobs: scraped_jobs
    last_next_page_token,  \* scrape_jobs: last_next_page_token
    params,                \* request of the fetch in progress
    attempt,               \* _get_dict_with_retry: attempt
    results,               \* scrape_jobs: results, the latest response
    raised,                \* outcome of the latest provider attempt
    files,                 \* the output documents written so far
    log,                   \* history: one entry per variant whose fetch returned
    calls,                 \* history: the provider attempts made so far
    slept                  \* seconds slept by the fetch in progress

vars == <<args, pc, target, date_chips, chipIdx, seen, scraped_jobs,
          last_next_page_token, params, attempt, results, raised, files, log,
          calls, slept>>

\* ------------------------------------------------------------ format_job
\* TimeKeeper.now, formatted to the minute: the run is taken to fall within
\* one minute of the wall clock.
TimeKeeperNow == "01-Jan-2026 T10:00"

RECURSIVE DescParts(_)
DescParts(highlights) ==
    IF highlights = <<>> THEN <<>>
    ELSE LET h == Head(highlights)
             title == Get(h, "title", "")
             items == Get(h, "items", <<>>)
         IN (IF title # "" THEN <<title>> ELSE <<>>) \o items
            \o DescParts(Tail(highlights))

ApplicationLinks(apply_options) ==
    [k \in 1..Len(apply_options) |->
        [url |-> Get(apply_options[k], "link", ""),
         platform |-> Get(apply_options[k], "title", "Unknown Platform")]]

format_job(raw, now) ==
    LET extensions == Get(raw, "detected_extensions", EmptyDict)
        highlights == Get(raw, "job_highlights", <<>>)
        desc_parts == DescParts(highlights)
    IN [scrape_time |-> now,
        job_title |-> Get(raw, "title", "Title not found"),
        publisher |-> Get(raw, "company_name", "Not specified"),
        time_posted |-> Get(extensions, "posted_at", "Not specified"),
        salary |-> Get(extensions, "salary", "Not specified"),
        benefits |-> <<>>,
        job_type |-> Get(extensions, "schedule_type", "Not specified"),
        desc |-> IF desc_parts # <<>> THEN desc_parts ELSE Get(raw, "description", <<>>),
        application_links |-> ApplicationLinks(Get(raw, "apply_options", <<>>))]

\* ----------------------------------------------------------- scrape_jobs
\* Target that always goes to the multiple of 10 above: (limit // 10 + 1) * 10.
Target_NextMultiple(limit) == ((limit \div 10) + 1) * 10

\* Target that asks for one page at least: max(1, math.ceil(limit / 10)) * 10.
Target_AtLeastOnePage(limit) ==
    LET pages_needed == IF limit % 10 = 0 THEN limit \div 10 ELSE (limit \div 10) + 1
    IN (IF pages_needed < 1 THEN 1 ELSE pages_needed) * 10

\* math.ceil(limit / 10) * 10
Target(limit) ==
    (IF limit % 10 = 0 THEN limit \div 10 ELSE (limit \div 10) + 1) * 10

\* DateChips with the unfiltered query first.
DateChips_UnfilteredFirst(is_today) ==
    IF is_today THEN <<"date_posted:today">>
    ELSE <<"", "date_posted:today", "date_posted:3days",
           "date_posted:week", "date_posted:month">>

DateChips(is_today) ==
    IF is_today THEN <<"date_posted:today">>
    ELSE <<"date_posted:today", "date_posted:3days",
           "date_posted:week", "date_posted:month", "">>

RawKey(job) == <<Get(job, "title", ""), Get(job, "company_name", "")>>

\* InsertJobs that puts a new record in front of the others.
RECURSIVE InsertJobs_Prepends(_, _, _, _)
InsertJobs_Prepends(jobs, acc, tgt, now) ==
    IF jobs = <<>> THEN acc
    ELSE IF Len(acc.scraped_jobs) >= tgt THEN acc
    ELSE LET job == Head(jobs)
             key == RawKey(job)
         IN IF key \notin acc.seen
            THEN InsertJobs_Prepends(Tail(jobs),
                            [seen |-> acc.seen \cup {key},
                             scraped_jobs |-> <<format_job(job, now)>> \o acc.scraped_jobs],
                            tgt, now)
            ELSE InsertJobs_Prepends(Tail(jobs), acc, tgt, now)

\* InsertJobs that adds the key of every listing of the page to seen, those
\* after the target is met included.
RECURSIVE InsertJobs_MarksSkipped(_, _, _, _)
InsertJobs_MarksSkipped(jobs, acc, tgt, now) ==
    IF jobs = <<>> THEN acc
    ELSE LET job == Head(jobs)
             key == RawKey(job)
         IN IF Len(acc.scraped_jobs) >= tgt
            THEN InsertJobs_MarksSkipped(Tail(jobs),
                            [seen |-> acc.seen \cup {key}, scraped_jobs |-> acc.scraped_jobs],
                            tgt, now)
            ELSE IF key \notin acc.seen
            THEN InsertJobs_MarksSkipped(Tail(jobs),
                            [seen |-> acc.seen \cup {key},
                             scraped_jobs |-> Append(acc.scraped_jobs, format_job(job, now))],
                            tgt, now)
            ELSE InsertJobs_MarksSkipped(Tail(jobs), acc, tgt, now)

\* InsertJobs without the membership test of line 155.
RECURSIVE InsertJobs_NoDedup(_, _, _, _)
InsertJobs_NoDedup(jobs, acc, tgt, now) ==
    IF jobs = <<>> THEN acc
    ELSE IF Len(acc.scraped_jobs) >= tgt THEN acc
    ELSE LET job == Head(jobs)
             key == RawKey(job)
         IN InsertJobs_NoDedup(Tail(jobs),
                               [seen |-> acc.seen \cup {key},
                                scraped_jobs |-> Append(acc.scraped_jobs, format_job(job, now))],
                               tgt, now)

\* InsertJobs without the break of lines 152-153.
RECURSIVE InsertJobs_NoBreak(_, _, _, _)
InsertJobs_NoBreak(jobs, acc, tgt, now) ==
    IF jobs = <<>> THEN acc
    ELSE LET job == Head(jobs)
             key == RawKey(job)
         IN IF key \notin acc.seen
            THEN InsertJobs_NoBreak(Tail(jobs),
                            [seen |-> acc.seen \cup {key},
                             scraped_jobs |-> Append(acc.scraped_jobs, format_job(job, now))],
                            tgt, now)
            ELSE InsertJobs_NoBreak(Tail(jobs), acc, tgt, now)

\* The loop `for job in jobs` of one page, from the accumulator acc =
\* [seen, scraped_jobs]; the break leaves the rest of the page alone.
RECURSIVE InsertJobs(_, _, _, _)
InsertJobs(jobs, acc, tgt, now) ==
    IF jobs = <<>> THEN acc
    ELSE IF Len(acc.scraped_jobs) >= tgt THEN acc
    ELSE LET job == Head(jobs)
             key == RawKey(job)
         IN IF key \notin acc.seen
            THEN InsertJobs(Tail(jobs),
                            [seen |-> acc.seen \cup {key},
                             scraped_jobs |-> Append(acc.scraped_jobs, format_job(job, now))],
                            tgt, now)
            ELSE InsertJobs(Tail(jobs), acc, tgt, now)

\* BuildParams that follows up the latest continuation token.
BuildParams_FollowsToken(chip_val) ==
    LET q == IF args.city_state # None
             THEN <<args.search_term, args.city_state>> ELSE <<args.search_term>>
        base == [engine |-> "google_jobs", q |-> q, hl |-> args.hl, api_key |-> args.api_key]
        withGl == IF args.gl # None
                  THEN [k \in DOMAIN base \cup {"gl"} |-> IF k = "gl" THEN args.gl ELSE base[k]]
                  ELSE base
        withChip == IF chip_val # ""
                    THEN [k \in DOMAIN withGl \cup {"chips"} |->
                            IF k = "chips" THEN chip_val ELSE withGl[k]]
                    ELSE withGl
    IN IF last_next_page_token # None /\ last_next_page_token # ""
       THEN [k \in DOMAIN withChip \cup {"next_page_token"} |->
                IF k = "next_page_token" THEN last_next_page_token ELSE withChip[k]]
       ELSE withChip

\* Lines 105-107 and 127-136: the request of one chip.
BuildParams(chip_val) ==
    LET q == IF args.city_state # None
             THEN <<args.search_term, args.city_state>> ELSE <<args.search_term>>
        base == [engine |-> "google_jobs", q |-> q, hl |-> args.hl, api_key |-> args.api_key]
        withGl == IF args.gl # None
                  THEN [k \in DOMAIN base \cup {"gl"} |-> IF k = "gl" THEN args.gl ELSE base[k]]
                  ELSE base
    IN IF chip_val # ""
       THEN [k \in DOMAIN withGl \cup {"chips"} |->
                IF k = "chips" THEN chip_val ELSE withGl[k]]
       ELSE withGl

\* ProcessResponse without the error check of lines 143-145.
ProcessResponse_NoErrorCheck(r, st, tgt, now) ==
    LET jobs == Get(r, "jobs_results", <<>>)
        token == Get(Get(r, "serpapi_pagination", EmptyDict), "next_page_token", None)
        acc == InsertJobs(jobs, [seen |-> st.seen, scraped_jobs |-> st.scraped_jobs], tgt, now)
    IN IF jobs = <<>> THEN st
       ELSE [seen |-> acc.seen, scraped_jobs |-> acc.scraped_jobs,
             last_next_page_token |-> token]

\* ProcessResponse that records the token before the checks of lines 143-148.
ProcessResponse_TokenFirst(r, st, tgt, now) ==
    LET error == Get(r, "error", "")
        jobs == Get(r, "jobs_results", <<>>)
        token == Get(Get(r, "serpapi_pagination", EmptyDict), "next_page_token", None)
        acc == InsertJobs(jobs, [seen |-> st.seen, scraped_jobs |-> st.scraped_jobs], tgt, now)
    IN IF error # "" THEN [st EXCEPT !.last_next_page_token = token]
       ELSE IF jobs = <<>> THEN [st EXCEPT !.last_next_page_token = token]
       ELSE [seen |-> acc.seen, scraped_jobs |-> acc.scraped_jobs,
             last_next_page_token |-> token]

\* ProcessResponse that keeps the old token when the response has none.
ProcessResponse_KeepsToken(r, st, tgt, now) ==
    LET error == Get(r, "error", "")
        jobs == Get(r, "jobs_results", <<>>)
        token == Get(Get(r, "serpapi_pagination", EmptyDict), "next_page_token", None)
        acc == InsertJobs(jobs, [seen |-> st.seen, scraped_jobs |-> st.scraped_jobs], tgt, now)
    IN IF error # "" THEN st
       ELSE IF jobs = <<>> THEN st
       ELSE [seen |-> acc.seen, scraped_jobs |-> acc.scraped_jobs,
             last_next_page_token |-> IF token = None THEN st.last_next_page_token ELSE token]

\* Lines 139-161: what one returned response does to the accumulator.
\* st = [seen, scraped_jobs, last_next_page_token].
ProcessResponse(r, st, tgt, now) ==
    LET error == Get(r, "error", "")
        jobs == Get(r, "jobs_results", <<>>)
        token == Get(Get(r, "serpapi_pagination", EmptyDict), "next_page_token", None)
        acc == InsertJobs(jobs, [seen |-> st.seen, scraped_jobs |-> st.scraped_jobs], tgt, now)
    IN IF error # "" THEN st
       ELSE IF jobs = <<>> THEN st
       ELSE [seen |-> acc.seen, scraped_jobs |-> acc.scraped_jobs,
             last_next_page_token |-> token]

\* Lines 169-187: the output document.
OutputData ==
    LET q == IF args.city_state # None
             THEN <<args.search_term, args.city_state>> ELSE <<args.search_term>>
        base == [engine |-> "google_jobs", q |-> q, hl |-> args.hl]
        withGl == IF args.gl # None
                  THEN [k \in DOMAIN base \cup {"gl"} |-> IF k = "gl" THEN args.gl ELSE base[k]]
                  ELSE base
        resume_params ==
            IF last_next_page_token # None /\ last_next_page_token # ""
            THEN [k \in DOMAIN withGl \cup {"next_page_token"} |->
                    IF k = "next_page_token" THEN last_next_page_token ELSE withGl[k]]
            ELSE withGl
    IN [search_term |-> args.search_term,
        location |-> IF args.city_state # None /\ args.city_state # ""
                     THEN args.city_state ELSE None,
        query_params |-> resume_params,
        total_jobs |-> Len(scraped_jobs),
        last_next_page_token |-> last_next_page_token,
        jobs |-> scraped_jobs]

\* History entry of one returned fetch: the chip, the error of the response
\* and the page that scrape_jobs went on to read (none under an error).
LogEntry(chip, r) ==
    [chip |-> chip,
     error |-> Get(r, "error", ""),
     jobs |-> IF Get(r, "error", "") # "" THEN <<>> ELSE Get(r, "jobs_results", <<>>)]

\* ------------------------------------------------------------------ Init
Locales == {[city_state |-> None, gl |-> None], [city_state |-> "Hanoi", gl |-> "vn"]}

\* The command lines tried: every limit with and without --is_today; the
\* location and country flags are left out only on some --is_today runs.
ArgsFor(l, t) ==
    {[search_term |-> "data scientist", limit |-> l, is_today |-> t,
      city_state |-> loc.city_state, hl |-> "en", gl |-> loc.gl, api_key |-> k] :
        k \in {"", "key"},
        loc \in IF t THEN Locales ELSE {[city_state |-> "Hanoi", gl |-> "vn"]}}

Args == UNION {ArgsFor(l, t) : l \in Limits, t \in BOOLEAN}

Init ==
    /\ args \in Args
    /\ pc = "cli"
    /\ target = 0
    /\ date_chips = <<>>
    /\ chipIdx = 0
    /\ seen = {}
    /\ scraped_jobs = <<>>
    /\ last_next_page_token = None
    /\ params = EmptyDict
    /\ attempt = 0
    /\ results = EmptyDict
    /\ raised = "none"
    /\ files = <<>>
    /\ log = <<>>
    /\ calls = 0
    /\ slept = 0

\* --------------------------------------------------------------- actions
\* Lines 219-225: parser.error exits when no key was given.
ConfigError ==
    /\ pc = "cli"
    /\ args.api_key = ""
    /\ pc' = "config_error"
    /\ UNCHANGED <<args, target, date_chips, chipIdx, seen, scraped_jobs,
                   last_next_page_token, params, attempt, results, raised, files, log,
                   calls, slept>>

\* StartScrape without the key check of line 221.
StartScrape_NoKeyCheck ==
    /\ pc = "cli"
    /\ target' = Target(args.limit)
    /\ date_chips' = DateChips(args.is_today)
    /\ chipIdx' = 1
    /\ seen' = {}
    /\ scraped_jobs' = <<>>
    /\ last_next_page_token' = None
    /\ pc' = "loop"
    /\ UNCHANGED <<args, params, attempt, results, raised, files, log,
                   calls, slept>>

\* Lines 227-235 and 86-120: the call of scrape_jobs up to the loop.
StartScrape ==
    /\ pc = "cli"
    /\ args.api_key # ""
    /\ target' = Target(args.limit)
    /\ date_chips' = DateChips(args.is_today)
    /\ chipIdx' = 1
    /\ seen' = {}
    /\ scraped_jobs' = <<>>
    /\ last_next_page_token' = None
    /\ pc' = "loop"
    /\ UNCHANGED <<args, params, attempt, results, raised, files, log,
                   calls, slept>>

\* NextChip without the guard of line 124.
NextChip_NoGuard ==
    /\ pc = "loop"
    /\ IF chipIdx > Len(date_chips)
       THEN /\ pc' = "finish"
            /\ UNCHANGED <<params, attempt, raised, slept>>
       ELSE /\ params' = BuildParams(date_chips[chipIdx])
            /\ attempt' = 1
            /\ raised' = "none"
            /\ slept' = 0
            /\ pc' = "fetch"
    /\ UNCHANGED <<args, target, date_chips, chipIdx, seen, scraped_jobs,
                   last_next_page_token, results, files, log, calls>>

\* Lines 122-138: the next chip, the guard of line 124, the request.
NextChip ==
    /\ pc = "loop"
    /\ IF chipIdx > Len(date_chips) \/ Len(scraped_jobs) >= target
       THEN /\ pc' = "finish"
            /\ UNCHANGED <<params, attempt, raised, slept>>
       ELSE /\ params' = BuildParams(date_chips[chipIdx])
            /\ attempt' = 1
            /\ raised' = "none"
            /\ slept' = 0
            /\ pc' = "fetch"
    /\ UNCHANGED <<args, target, date_chips, chipIdx, seen, scraped_jobs,
                   last_next_page_token, results, files, log, calls>>

\* AttemptRaises where the exhausted fetch starts over.
AttemptRaises_StartsOver ==
    /\ pc = "fetch"
    /\ raised' = "connection_error"
    /\ attempt' = IF attempt = MAX_RETRIES THEN 1 ELSE attempt + 1
    /\ pc' = "fetch"
    /\ slept' = IF attempt = MAX_RETRIES THEN 0 ELSE slept + RETRY_DELAY
    /\ UNCHANGED <<args, target, date_chips, chipIdx, seen, scraped_jobs,
                   last_next_page_token, params, results, files, log>>
    /\ UNCHANGED calls

\* AttemptRaises where the exhausted fetch only gives up its own variant.
AttemptRaises_SkipsVariant ==
    /\ pc = "fetch"
    /\ raised' = "connection_error"
    /\ IF attempt = MAX_RETRIES
       THEN /\ pc' = "loop"
            /\ chipIdx' = chipIdx + 1
            /\ UNCHANGED <<attempt, slept>>
       ELSE /\ attempt' = attempt + 1
            /\ slept' = slept + RETRY_DELAY
            /\ pc' = "fetch"
            /\ UNCHANGED chipIdx
    /\ UNCHANGED <<args, target, date_chips, seen, scraped_jobs,
                   last_next_page_token, params, results, files, log>>
    /\ UNCHANGED calls

\* AttemptRaisesStep with one retry budget for the whole run: the fetch
\* gives up at the third connection error of the run.
AttemptRaisesStep_SharedBudget ==
    /\ pc = "fetch"
    /\ raised' = "connection_error"
    /\ IF attempt = MAX_RETRIES \/ (calls - Len(log)) + 1 >= MAX_RETRIES
       THEN /\ pc' = "fatal"
            /\ UNCHANGED <<attempt, slept>>
       ELSE /\ attempt' = attempt + 1
            /\ slept' = slept + RETRY_DELAY
            /\ pc' = "fetch"
    /\ UNCHANGED <<args, target, date_chips, chipIdx, seen, scraped_jobs,
                   last_next_page_token, params, results, files, log>>

\* Lines 61-69: the provider call raises RequestsConnectionError.
AttemptRaisesStep ==
    /\ pc = "fetch"
    /\ raised' = "connection_error"
    /\ IF attempt = MAX_RETRIES
       THEN /\ pc' = "fatal"
            /\ UNCHANGED <<attempt, slept>>
       ELSE /\ attempt' = attempt + 1
            /\ slept' = slept + RETRY_DELAY
            /\ pc' = "fetch"
    /\ UNCHANGED <<args, target, date_chips, chipIdx, seen, scraped_jobs,
                   last_next_page_token, params, results, files, log>>

\* AttemptRaises that sleeps before the test of line 65.
AttemptRaises_SleepsFirst ==
    /\ pc = "fetch"
    /\ raised' = "connection_error"
    /\ slept' = slept + RETRY_DELAY
    /\ IF attempt = MAX_RETRIES
       THEN /\ pc' = "fatal"
            /\ UNCHANGED attempt
       ELSE /\ attempt' = attempt + 1
            /\ pc' = "fetch"
    /\ UNCHANGED <<args, target, date_chips, chipIdx, seen, scraped_jobs,
                   last_next_page_token, params, results, files, log, calls>>

\* Lines 61-69 as seen by scrape_jobs; the attempt is not counted.
AttemptRaises ==
    /\ AttemptRaisesStep
    /\ UNCHANGED calls

\* AttemptReturns where a response with an error is tried again.
AttemptReturns_RetriesError ==
    /\ pc = "fetch"
    /\ \E r \in Responses :
        LET st == ProcessResponse(r,
                                  [seen |-> seen, scraped_jobs |-> scraped_jobs,
                                   last_next_page_token |-> last_next_page_token],
                                  target, TimeKeeperNow)
        IN IF Get(r, "error", "") # "" /\ attempt < MAX_RETRIES
           THEN /\ attempt' = attempt + 1
                /\ results' = r
                /\ pc' = "fetch"
                /\ UNCHANGED <<seen, scraped_jobs, last_next_page_token, log, chipIdx, slept>>
           ELSE /\ seen' = st.seen
                /\ scraped_jobs' = st.scraped_jobs
                /\ last_next_page_token' = st.last_next_page_token
                /\ results' = r
                /\ log' = Append(log, LogEntry(date_chips[chipIdx], r))
                /\ attempt' = 0
                /\ slept' = 0
                /\ IF Len(st.scraped_jobs) >= target
                   THEN pc' = "finish" /\ chipIdx' = chipIdx
                   ELSE pc' = "loop" /\ chipIdx' = chipIdx + 1
    /\ raised' = "returned"
    /\ UNCHANGED <<args, target, date_chips, params, files>>
    /\ UNCHANGED calls

\* AttemptReturns where an error response ends the loop over the chips.
AttemptReturns_ErrorBreaks ==
    /\ pc = "fetch"
    /\ \E r \in Responses :
        LET st == ProcessResponse(r,
                                  [seen |-> seen, scraped_jobs |-> scraped_jobs,
                                   last_next_page_token |-> last_next_page_token],
                                  target, TimeKeeperNow)
        IN /\ seen' = st.seen
           /\ scraped_jobs' = st.scraped_jobs
           /\ last_next_page_token' = st.last_next_page_token
           /\ results' = r
           /\ log' = Append(log, LogEntry(date_chips[chipIdx], r))
           /\ IF Len(st.scraped_jobs) >= target \/ Get(r, "error", "") # ""
              THEN pc' = "finish" /\ chipIdx' = chipIdx
              ELSE pc' = "loop" /\ chipIdx' = chipIdx + 1
    /\ raised' = "returned"
    /\ attempt' = 0
    /\ UNCHANGED <<args, target, date_chips, params, files>>
    /\ UNCHANGED calls
    /\ slept' = 0

\* Lines 63 and 139-164: the provider call returns a response, which is
\* processed; then the guard of line 163.
AttemptReturnsStep ==
    /\ pc = "fetch"
    /\ \E r \in Responses :
        LET st == ProcessResponse(r,
                                  [seen |-> seen, scraped_jobs |-> scraped_jobs,
                                   last_next_page_token |-> last_next_page_token],
                                  target, TimeKeeperNow)
        IN /\ seen' = st.seen
           /\ scraped_jobs' = st.scraped_jobs
           /\ last_next_page_token' = st.last_next_page_token
           /\ results' = r
           /\ log' = Append(log, LogEntry(date_chips[chipIdx], r))
           /\ IF Len(st.scraped_jobs) >= target
              THEN pc' = "finish" /\ chipIdx' = chipIdx
              ELSE pc' = "loop" /\ chipIdx' = chipIdx + 1
    /\ raised' = "returned"
    /\ attempt' = 0
    /\ UNCHANGED <<args, target, date_chips, params, files>>
    /\ slept' = 0

\* Lines 63 and 139-164 as seen by scrape_jobs; the attempt is not counted.
AttemptReturns ==
    /\ AttemptReturnsStep
    /\ UNCHANGED calls

\* Lines 166-193: the output document is written.
Finish ==
    /\ pc = "finish"
    /\ files' = Append(files, OutputData)
    /\ pc' = "done"
    /\ UNCHANGED <<args, target, date_chips, chipIdx, seen, scraped_jobs,
                   last_next_page_token, params, attempt, results, raised, log,
                   calls, slept>>

Next ==
    \/ ConfigError
    \/ StartScrape
    \/ NextChip
    \/ AttemptRaises
    \/ AttemptReturns
    \/ Finish

Spec == Init /\ [][Next]_vars

FairSpec == Spec /\ WF_vars(Next)

\* The same run with every provider attempt counted in calls.
ObservedAttemptRaises ==
    /\ AttemptRaisesStep
    /\ calls' = calls + 1

ObservedAttemptReturns ==
    /\ AttemptReturnsStep
    /\ calls' = calls + 1

ObservedNext ==
    \/ ConfigError
    \/ StartScrape
    \/ NextChip
    \/ ObservedAttemptRaises
    \/ ObservedAttemptReturns
    \/ Finish

ObservedSpec == Init /\ [][ObservedNext]_vars

\* The start of scrape_jobs alone, for every --limit from 1 to MaxRoundLimit:
\* the rounding of lines 88-90.
RoundArgs ==
    {[search_term |-> "data scientist", limit |-> l, is_today |-> FALSE,
      city_state |-> None, hl |-> "en", gl |-> None, api_key |-> k] :
        l \in 1..MaxRoundLimit, k \in {"", "key"}}

RoundInit ==
    /\ args \in RoundArgs
    /\ pc = "cli"
    /\ target = 0
    /\ date_chips = <<>>
    /\ chipIdx = 0
    /\ seen = {}
    /\ scraped_jobs = <<>>
    /\ last_next_page_token = None
    /\ params = EmptyDict
    /\ attempt = 0
    /\ results = EmptyDict
    /\ raised = "none"
    /\ files = <<>>
    /\ log = <<>>
    /\ calls = 0
    /\ slept = 0

RoundNext ==
    \/ ConfigError
    \/ StartScrape

RoundSpec == RoundInit /\ [][RoundNext]_vars

\* ------------------------------------------------- vocabulary of the claims
\* The chips whose fetch was started, in the order of the calls.
Queried ==
    [i \in 1..Len(log) |-> log[i].chip]
    \o (IF pc \in {"fetch", "fatal"} THEN <<date_chips[chipIdx]>> ELSE <<>>)

\* A fetch returns in this step.
Returns == pc = "fetch" /\ raised' = "returned"

\* The entries of the history whose response carried an error.
ErrorEntries == {i \in 1..Len(log) : log[i].error # ""}

RECURSIVE ConcatPages(_)
ConcatPages(lg) == IF lg = <<>> THEN <<>> ELSE Head(lg).jobs \o ConcatPages(Tail(lg))

Elements(sq) == {sq[i] : i \in 1..Len(sq)}

\* The bundle holds the record made from a returned listing with the key of raw.
Represented(raw, jobs) ==
    \E k \in 1..Len(jobs), raw2 \in Elements(ConcatPages(log)) :
        /\ RawKey(raw2) = RawKey(raw)
        /\ jobs[k] = format_job(raw2, jobs[k].scrape_time)

\* ----------------------------------------------------------------- claims
\* C1: every provider call is issued with fewer than target accumulated
\* records; once the count has reached target no further variant is queried,
\* so a first variant that alone yields target records is the only one queried.
C1_CallsOnlyBelowTarget ==
    /\ [](pc = "fetch" => Len(scraped_jobs) < target)
    /\ [][(pc # "cli" /\ Len(scraped_jobs) >= target) => Queried' = Queried]_vars
    /\ []((pc = "done" /\ Len(log) >= 1 /\ Cardinality({RawKey(j) : j \in Elements(log[1].jobs)}) >= target)
            => Len(Queried) = 1)

C1_Witness ==
    /\ pc = "done"
    /\ ~args.is_today
    /\ target > 0
    /\ Len(log) = 1
    /\ Len(scraped_jobs) >= target

\* C2: a fetch whose 3 attempts all fail with a connection error aborts the
\* run: no later variant is queried and no output document is written,
\* whatever earlier variants have accumulated.
C2_ExhaustedRetriesAbort ==
    /\ [][(pc = "fetch" /\ attempt = 3 /\ raised' = "connection_error") => pc' = "fatal"]_vars
    /\ [](pc = "fatal" => files = <<>>)
    /\ [][pc = "fatal" => (pc' = "fatal" /\ Queried' = Queried /\ files' = <<>>)]_vars

C2_Witness ==
    /\ pc = "fatal"
    /\ Len(scraped_jobs) > 0
    /\ chipIdx < Len(date_chips)

\* C3: a response with a non-empty error does not fail the run: the
\* controller goes on to the next variant, and the bundle that is produced
\* holds the records of the later successful variants.
C3_AppErrorSkipsVariant ==
    /\ [][(Returns /\ Get(results', "error", "") # "")
            => (pc' = "loop" /\ chipIdx' = chipIdx + 1)]_vars
    /\ []((pc = "done" /\ ErrorEntries # {})
            => /\ Len(files) = 1
               /\ \A i \in ErrorEntries : \A j \in (i + 1)..Len(log) :
                    \A raw \in Elements(log[j].jobs) :
                        \/ Represented(raw, files[1].jobs)
                        \/ files[1].total_jobs >= target)

C3_Witness ==
    /\ pc = "done"
    /\ Len(log) >= 2
    /\ log[1].error # ""
    /\ log[2].error = "" /\ log[2].jobs # <<>>
    /\ \A raw \in Elements(log[2].jobs) : Represented(raw, files[1].jobs)

\* C4: no two accumulated records share the (job_title, publisher) pair of
\* the normalizer's output.
C4_NoSharedDedupeKey ==
    \A i, j \in 1..Len(scraped_jobs) :
        i # j => <<scraped_jobs[i].job_title, scraped_jobs[i].publisher>>
                 # <<scraped_jobs[j].job_title, scraped_jobs[j].publisher>>

\* C5: for limit >= 1 the accumulated records never exceed target: the
\* insertion of a page stops once target is met, and the bundle holds at
\* most target records.
C5_NeverAboveTarget ==
    (args.limit >= 1 /\ pc # "cli")
        => /\ Len(scraped_jobs) <= target
           /\ pc = "done" => (files[1].total_jobs <= target /\ Len(files[1].jobs) <= target)

\* A page was cut: the target is met and the last page holds a listing whose
\* key was never inserted.
C5_Witness ==
    /\ pc = "done"
    /\ args.limit >= 1
    /\ Len(scraped_jobs) = target
    /\ \E raw \in Elements(log[Len(log)].jobs) : RawKey(raw) \notin seen

\* The listings of sq without those whose key an earlier one has, in order.
RECURSIVE DedupeByKey(_, _)
DedupeByKey(sq, keys) ==
    IF sq = <<>> THEN <<>>
    ELSE IF RawKey(Head(sq)) \in keys THEN DedupeByKey(Tail(sq), keys)
    ELSE <<Head(sq)>> \o DedupeByKey(Tail(sq), keys \cup {RawKey(Head(sq))})

Take(sq, n) == IF n <= 0 THEN <<>> ELSE SubSeq(sq, 1, IF n < Len(sq) THEN n ELSE Len(sq))

\* The number of unique listings in the pages of the first n history entries.
UniqueAfter(n) == Len(DedupeByKey(ConcatPages(SubSeq(log, 1, n)), {}))

\* The length of the shortest prefix of the chips after which target is met,
\* or that of the whole sequence.
ShortestPrefix(chips) ==
    IF \E n \in 0..Len(log) : UniqueAfter(n) >= target
    THEN CHOOSE n \in 0..Len(log) :
            /\ UniqueAfter(n) >= target
            /\ \A m \in 0..(n - 1) : UniqueAfter(m) < target
    ELSE Len(chips)

\* C6: a run that did not fail writes the first target elements of the
\* order-preserving deduplication (by raw title/company key) of the pages of
\* the error-free variants in query order, and queries exactly the shortest
\* prefix of the chips after which the count reaches target, or all of them.
C6_BundleIsDedupedPrefix ==
    pc = "done" =>
        LET expected == Take(DedupeByKey(ConcatPages(log), {}), target)
            chips == IF args.is_today THEN <<"date_posted:today">>
                     ELSE <<"date_posted:today", "date_posted:3days",
                            "date_posted:week", "date_posted:month", "">>
        IN /\ Len(files[1].jobs) = Len(expected)
           /\ \A k \in 1..Len(expected) :
                files[1].jobs[k] = format_job(expected[k], files[1].jobs[k].scrape_time)
           /\ files[1].total_jobs = Len(expected)
           /\ Queried = SubSeq(chips, 1, ShortestPrefix(chips))

\* limit=15 (target 20), two full pages from the first two variants.
C6_Witness ==
    /\ pc = "done"
    /\ args.limit = 15
    /\ args.city_state = "Hanoi"
    /\ Len(log) = 2
    /\ log[1].jobs = Slice(11, MaxPageLen)
    /\ log[2].jobs = Slice(21, MaxPageLen)
    /\ files[1].total_jobs = 20
    /\ Queried = <<"date_posted:today", "date_posted:3days">>

\* C7: one fetch makes at most 3 provider attempts; attempt k+1 is made only
\* after attempt k raised a connection error; a response, with an error or
\* not, ends the fetch of its variant at the attempt that produced it.
C7_AtMostThreeAttempts ==
    /\ [](pc = "fetch" => (attempt \in 1..3 /\ (attempt > 1 => raised = "connection_error")))
    /\ [][(attempt' > attempt /\ attempt >= 1)
            => (attempt' = attempt + 1 /\ pc = "fetch" /\ raised' = "connection_error")]_vars
    /\ [][Returns => (pc' # "fetch" /\ log' = Append(log, LogEntry(date_chips[chipIdx], results'))
                        /\ Len(Queried') = Len(Queried))]_vars

\* The third attempt of a variant is due although the variant before it
\* returned an error response, which ended that fetch at once.
C7_Witness ==
    /\ pc = "fetch"
    /\ attempt = 3
    /\ Len(log) >= 1
    /\ log[Len(log)].error # ""

\* C8: the chips queried are always a prefix of [today, 3days, week, month,
\* none] without --is_today and of [today] with it.
C8_QueriedIsPrefix ==
    LET chips == IF args.is_today THEN <<"date_posted:today">>
                 ELSE <<"date_posted:today", "date_posted:3days",
                        "date_posted:week", "date_posted:month", "">>
    IN pc # "cli" => (Len(Queried) <= Len(chips) /\ Queried = SubSeq(chips, 1, Len(Queried)))

C8_Witness ==
    /\ pc = "done"
    /\ Queried = <<"date_posted:today", "date_posted:3days",
                   "date_posted:week", "date_posted:month", "">>

\* C9: a started run ends, and ends in one of two ways: the document is
\* written, after the target is met or the chips are used up, or the run
\* fails, which only the third connection error of a fetch brings about;
\* nothing follows either end and the run never starts over.
C9_RunTerminates ==
    /\ (pc \in {"loop", "fetch", "finish"}) ~> (pc \in {"done", "fatal"})
    /\ [](pc = "done" => (Len(files) = 1
                           /\ (Len(scraped_jobs) >= target \/ Len(log) = Len(date_chips))))
    /\ [](pc = "fatal" => (files = <<>> /\ attempt = 3 /\ raised = "connection_error"))
    /\ [][(pc \in {"done", "fatal"}) => UNCHANGED <<pc, files, log>>]_vars
    /\ [][pc # "cli" => (pc' # "cli" /\ chipIdx' >= chipIdx /\ Len(log') >= Len(log))]_vars

\* The chips are used up with fewer than target records.
C9_Witness ==
    /\ pc = "done"
    /\ Len(log) = 5
    /\ Len(scraped_jobs) < target
    /\ Len(files) = 1

\* Every listing the provider can return.
Listings == UNION {Elements(p) : p \in Pages}

\* C10: inserting a listing whose (title, company) key is already seen
\* changes neither the records nor the seen set, so a page whose keys are
\* all seen leaves them unchanged, and inserting one listing twice adds at
\* most one record.
C10_DuplicateInsertIsNoOp ==
    /\ [](\A raw \in Listings :
            LET acc == [seen |-> seen, scraped_jobs |-> scraped_jobs]
            IN /\ RawKey(raw) \in seen => InsertJobs(<<raw>>, acc, target, TimeKeeperNow) = acc
               /\ Len(InsertJobs(<<raw, raw>>, acc, target, TimeKeeperNow).scraped_jobs)
                    <= Len(scraped_jobs) + 1)
    /\ [][(Returns /\ \A raw \in Elements(log'[Len(log')].jobs) : RawKey(raw) \in seen)
            => (scraped_jobs' = scraped_jobs /\ seen' = seen)]_vars

\* The same page came back from a later variant, below the target.
C10_Witness ==
    /\ Len(scraped_jobs) < target
    /\ \E i, j \in 1..Len(log) : i < j /\ log[i].jobs # <<>> /\ log[i].jobs = log[j].jobs

\* C11: the accumulated records are append-only in discovery order: a record
\* keeps its position and content for the rest of the run, and of several
\* listings with the same (title, company) key, in one page or across
\* variants, the record kept is the normalization of the first one met.
C11_AppendOnlyFirstWins ==
    /\ [][/\ Len(scraped_jobs') >= Len(scraped_jobs)
           /\ SubSeq(scraped_jobs', 1, Len(scraped_jobs)) = scraped_jobs]_vars
    /\ [](LET first == DedupeByKey(ConcatPages(log), {})
          IN /\ Len(scraped_jobs) <= Len(first)
             /\ \A k \in 1..Len(scraped_jobs) :
                    scraped_jobs[k] = format_job(first[k], scraped_jobs[k].scrape_time))

\* Listing 5 came first and listing 11, with its key and other details, in a
\* later variant: the record of listing 5 is kept, none is made of listing 11.
C11_Witness ==
    /\ Len(log) >= 2
    /\ log[1].jobs = Slice(1, 5)
    /\ log[2].jobs = Slice(11, MaxPageLen)
    /\ RawKey(RawJob(5)) = RawKey(RawJob(11))
    /\ format_job(RawJob(5), TimeKeeperNow) # format_job(RawJob(11), TimeKeeperNow)
    /\ scraped_jobs[4] = format_job(RawJob(5), TimeKeeperNow)
    /\ \A k \in 1..Len(scraped_jobs) : scraped_jobs[k] # format_job(RawJob(11), TimeKeeperNow)
    /\ Len(scraped_jobs) > 4

\* C12: for every limit >= 1 the target is the smallest multiple of 10 that
\* is >= limit; limits 1, 9, 10, 11, 20 give 10, 10, 10, 20, 20.
C12_TargetRoundsUp ==
    (pc = "loop" /\ args.limit >= 1)
        => /\ target % 10 = 0
           /\ target >= args.limit
           /\ target - args.limit < 10
           /\ \A m \in 0..(args.limit + 10) :
                (m % 10 = 0 /\ m >= args.limit) => target <= m
           /\ args.limit \in {1, 9, 10} => target = 10
           /\ args.limit \in {11, 20} => target = 20

C12_Witness ==
    /\ pc = "loop"
    /\ args.limit = 11
    /\ target = 20

\* C13: started with no credential, the program reports the configuration
\* error and the run never starts: no provider call, no output document.
C13_NoCredentialNoRun ==
    /\ [](args.api_key = ""
            => /\ pc \in {"cli", "config_error"}
               /\ Queried = <<>>
               /\ raised = "none"
               /\ attempt = 0
               /\ files = <<>>)
    /\ [][(pc = "cli" /\ args.api_key = "") => pc' = "config_error"]_vars

C13_Witness ==
    /\ pc = "config_error"
    /\ args.api_key = ""
    /\ files = <<>>

\* The response has no error and a non-empty list of jobs.
OkNonEmpty(r) ==
    /\ ("error" \notin DOMAIN r \/ r.error = "")
    /\ "jobs_results" \in DOMAIN r
    /\ r.jobs_results # <<>>

\* The continuation token of the response, None when it has none.
TokenOf(r) ==
    IF "serpapi_pagination" \in DOMAIN r
    THEN IF "next_page_token" \in DOMAIN r.serpapi_pagination
         THEN r.serpapi_pagination.next_page_token ELSE None
    ELSE None

\* C14: a variant whose response has an error, or an empty list and no
\* error, leaves the records, the seen set and the latest token unchanged,
\* whatever records or token the error response carries.
C14_SkippedVariantChangesNothing ==
    [][(Returns /\ ~OkNonEmpty(results'))
        => (scraped_jobs' = scraped_jobs /\ seen' = seen
            /\ last_next_page_token' = last_next_page_token)]_vars

\* An error response came with a token and with listings not seen before,
\* after a page that had left the token tokA.
C14_Witness ==
    /\ raised = "returned"
    /\ pc = "loop"
    /\ "error" \in DOMAIN results /\ results.error # ""
    /\ TokenOf(results) = "tokE"
    /\ \E raw \in Elements(results.jobs_results) : RawKey(raw) \notin seen
    /\ last_next_page_token = "tokA"
    /\ Len(scraped_jobs) > 0

\* C15: a variant whose response has a non-empty list and no error sets the
\* latest token to the token of that response (None when it has none, new
\* records or not); nothing else changes it, so the document's
\* last_next_page_token is the token of the last such variant, or None.
C15_TokenOfLastPage ==
    /\ [][(Returns /\ OkNonEmpty(results'))
            => last_next_page_token' = TokenOf(results')]_vars
    /\ [][(pc # "cli" /\ ~(Returns /\ OkNonEmpty(results')))
            => last_next_page_token' = last_next_page_token]_vars
    /\ []((pc # "cli" /\ \A i \in 1..Len(log) : (log[i].error # "" \/ log[i].jobs = <<>>))
            => last_next_page_token = None)
    /\ []((Len(log) > 0 /\ log[Len(log)].error = "" /\ log[Len(log)].jobs # <<>>)
            => last_next_page_token = TokenOf(results))
    /\ [](pc = "done" => files[1].last_next_page_token = last_next_page_token)

\* The last variant returned, without a token, the page of the variant
\* before it: nothing was new and the document has no token.
C15_Witness ==
    /\ pc = "done"
    /\ Len(log) = 5
    /\ log[5].jobs # <<>>
    /\ log[5].jobs = log[4].jobs
    /\ "serpapi_pagination" \notin DOMAIN results
    /\ files[1].last_next_page_token = None
    /\ files[1].total_jobs > 0

\* C16: no request carries a continuation token and a variant gets at most
\* one response: whatever token comes back, the next request is that of the
\* next chip.
C16_NoPaginationFollowUp ==
    /\ []("next_page_token" \notin DOMAIN params)
    /\ [](pc = "fetch"
            => /\ DOMAIN params \subseteq {"engine", "q", "hl", "api_key", "gl", "chips"}
               /\ Get(params, "chips", "") = Queried[Len(Queried)])
    /\ [](\A i, j \in 1..Len(log) : i # j => log[i].chip # log[j].chip)
    /\ [][Returns => (pc' \in {"loop", "finish"}
                       /\ (pc' = "loop" => chipIdx' = chipIdx + 1))]_vars

\* A request is out after a page that came with the token tokA.
C16_Witness ==
    /\ pc = "fetch"
    /\ last_next_page_token = "tokA"
    /\ TokenOf(results) = "tokA"
    /\ "next_page_token" \notin DOMAIN params

\* C17: the retry budget belongs to one fetch: every fetch starts at attempt
\* 1 and a connection error before the third attempt is always followed by
\* another attempt, whatever earlier fetches suffered; so a run makes at
\* most 3 attempts per variant, 15 in all and 3 with --is_today.
C17_RetryBudgetPerCall ==
    /\ [][(pc = "loop" /\ pc' = "fetch") => attempt' = 1]_vars
    /\ [][(pc = "fetch" /\ raised' = "connection_error" /\ attempt < 3)
            => (pc' = "fetch" /\ attempt' = attempt + 1)]_vars
    /\ [](pc # "cli" => calls <= 3 * Len(Queried))
    /\ [](calls <= (IF args.is_today THEN 3 ELSE 15))
    /\ [](pc = "fetch" => calls - Len(log) - (attempt - 1) <= 2 * Len(log))

\* Each of five variants took its three attempts, the last one in vain,
\* after eight connection errors of the variants before it.
C17_Witness ==
    /\ pc = "fatal"
    /\ Len(log) = 4
    /\ calls = 15
    /\ attempt = 3

\* C18: within one fetch the delay of 5 seconds comes once after each failed
\* attempt that another attempt follows: none before the first attempt,
\* none after a response, none after the third failure; n attempts wait
\* n - 1 times.
C18_SleepsBetweenAttempts ==
    /\ [](pc = "fetch" => slept = 5 * (attempt - 1))
    /\ [][(pc = "loop" /\ pc' = "fetch") => slept' = 0]_vars
    /\ [][(pc = "fetch" /\ raised' = "connection_error")
            => IF attempt < 3
               THEN slept' = slept + 5 /\ attempt' = attempt + 1
               ELSE slept' = slept /\ pc' = "fatal"]_vars
    /\ [][Returns => (slept = 5 * (attempt - 1) /\ slept' = 0)]_vars
    /\ [](pc = "fatal" => (attempt = 3 /\ slept = 5 * 2))

\* The third attempt failed after two delays.
C18_Witness ==
    /\ pc = "fatal"
    /\ attempt = 3
    /\ slept = 10
    /\ raised = "connection_error"

\* C19: with limit <= 0 the target is <= 0: a started run makes no provider
\* call and still writes its document, with no records and no token.
C19_NonPositiveLimit ==
    /\ []((args.limit <= 0 /\ pc # "cli")
            => /\ target <= 0
               /\ pc \notin {"fetch", "fatal"}
               /\ Queried = <<>>
               /\ raised = "none"
               /\ scraped_jobs = <<>>)
    /\ []((args.limit <= 0 /\ pc = "done")
            => /\ Len(files) = 1
               /\ files[1].total_jobs = 0
               /\ files[1].jobs = <<>>
               /\ files[1].last_next_page_token = None
               /\ "next_page_token" \notin DOMAIN files[1].query_params)
    /\ (args.limit <= 0 /\ pc = "loop") ~> (pc = "done")

C19_Witness ==
    /\ args.limit < 0
    /\ target < 0
    /\ pc = "done"
    /\ files[1].total_jobs = 0
    /\ files[1].last_next_page_token = None

\* The (title, company_name) key of a listing, "" for a missing field.
KeyOf(raw) ==
    <<IF "title" \in DOMAIN raw THEN raw.title ELSE "",
      IF "company_name" \in DOMAIN raw THEN raw.company_name ELSE "">>

\* C20: the seen set is always the set of the keys of the listings that were
\* inserted, as many as there are records; the key of a listing skipped
\* after the target was met is not added.
C20_SeenIsKeysOfRecords ==
    LET first == DedupeByKey(ConcatPages(log), {})
        inserted == SubSeq(first, 1, Len(scraped_jobs))
    IN /\ Len(scraped_jobs) <= Len(first)
       /\ Cardinality(seen) = Len(scraped_jobs)
       /\ seen = {KeyOf(inserted[k]) : k \in 1..Len(inserted)}
       /\ \A k \in (Len(scraped_jobs) + 1)..Len(first) : KeyOf(first[k]) \notin seen

\* The target cut a page: a listing of it has no record and its key is not
\* seen, while the key ("", "c0") of a listing without title is.
C20_Witness ==
    /\ Len(scraped_jobs) = target
    /\ target > 0
    /\ <<"", "c0">> \in seen
    /\ \E raw \in Elements(ConcatPages(log)) : KeyOf(raw) \notin seen

====
